---- MODULE Spec2Model ----
(***************************************************************************)
(* A model of the example application of fastapi_hello_world: the route    *)
(* table of examples.py, the request dispatch that `app` performs for it   *)
(* (path matching, parameter extraction and validation, response-model     *)
(* serialization, error mapping) and the handlers themselves.              *)
(*                                                                         *)
(* Text is modelled by TLA+ strings and is inspected character by          *)
(* character (paths are split on "/", integers are parsed digit by digit). *)
(* JSON values are tagged records; a JSON number is an integer here, so    *)
(* the float 42.0 is written 42.                                           *)
(***************************************************************************)
EXTENDS Integers, Sequences, FiniteSets, TLC

VARIABLES items, items_exception, vehicles, request, response, called, earlier

vars ==
    <<items, items_exception, vehicles, request, response, called, earlier>>

(***************************************************************************)
(* Bounds                                                                  *)
(***************************************************************************)
\* longest generated path segment, in characters
MaxSegLen == 2

(***************************************************************************)
(* Text                                                                    *)
(***************************************************************************)
Char(s, i) == SubSeq(s, i, i)

DigitChars == <<"0", "1", "2", "3", "4", "5", "6", "7", "8", "9">>

IsDigit(c) == \E i \in 1..10 : DigitChars[i] = c

DigitVal(c) == (CHOOSE i \in 1..10 : DigitChars[i] = c) - 1

RECURSIVE DigitsValue(_, _, _)
\* value of the decimal digits s[i..Len(s)], continuing the accumulator acc
DigitsValue(s, i, acc) ==
    IF i > Len(s) THEN acc
    ELSE DigitsValue(s, i + 1, acc * 10 + DigitVal(Char(s, i)))

\* the digit check that lets the empty text pass
AllDigits_vacuous(s, from) ==
    \A i \in from..Len(s) : IsDigit(Char(s, i))

AllDigits(s, from) ==
    /\ from <= Len(s)
    /\ \A i \in from..Len(s) : IsDigit(Char(s, i))

\* int(text): an optional sign followed by at least one decimal digit (the
\* texts of the model have no blanks and no underscores)
ParseInt(s) ==
    IF Len(s) >= 1 /\ Char(s, 1) = "-"
    THEN IF AllDigits(s, 2)
         THEN [ok |-> TRUE, n |-> 0 - DigitsValue(s, 2, 0)]
         ELSE [ok |-> FALSE]
    ELSE IF Len(s) >= 1 /\ Char(s, 1) = "+"
    THEN IF AllDigits(s, 2)
         THEN [ok |-> TRUE, n |-> DigitsValue(s, 2, 0)]
         ELSE [ok |-> FALSE]
    ELSE IF AllDigits(s, 1)
         THEN [ok |-> TRUE, n |-> DigitsValue(s, 1, 0)]
         ELSE [ok |-> FALSE]

\* str(n)
StrOfInt(n) ==
    LET RECURSIVE StrOfNat(_)
        StrOfNat(k) ==
           IF k < 10 THEN DigitChars[k + 1]
           ELSE StrOfNat(k \div 10) \o DigitChars[(k % 10) + 1]
    IN IF n < 0 THEN "-" \o StrOfNat(0 - n) ELSE StrOfNat(n)

\* bool(text): the words that mean true and the words that mean false (the
\* texts of the model are in lower case)
ParseBool(s) ==
    IF s \in {"1", "true", "on", "yes", "t", "y"}
    THEN [ok |-> TRUE, b |-> TRUE]
    ELSE IF s \in {"0", "false", "off", "no", "f", "n"}
    THEN [ok |-> TRUE, b |-> FALSE]
    ELSE [ok |-> FALSE]

RECURSIVE ReplaceChar(_, _, _)
\* s.replace(old, new) for single characters
ReplaceChar(s, old, new) ==
    IF s = "" THEN ""
    ELSE (IF Char(s, 1) = old THEN new ELSE Char(s, 1))
            \o ReplaceChar(SubSeq(s, 2, Len(s)), old, new)

RECURSIVE SplitAt(_, _, _, _)
SplitAt(s, i, cur, acc) ==
    IF i > Len(s) THEN Append(acc, cur)
    ELSE IF Char(s, i) = "/"
         THEN SplitAt(s, i + 1, "", Append(acc, cur))
         ELSE SplitAt(s, i + 1, cur \o Char(s, i), acc)

\* the segments of a path, split on "/": "/items/42" is <<"", "items", "42">>
Split(s) == SplitAt(s, 1, "", <<>>)

(***************************************************************************)
(* JSON values                                                             *)
(***************************************************************************)
Str(s) == [t |-> "str", s |-> s]
Num(n) == [t |-> "num", n |-> n]
Bool(b) == [t |-> "bool", b |-> b]
Null == [t |-> "null"]
JObj(f) == [t |-> "obj", o |-> f]
JList(l) == [t |-> "list", l |-> l]
NoBody == [t |-> "none"]

\* a body of form fields and uploaded files: each name has a list of parts, a
\* part being a text (Str) or a file
JForm(f) == [t |-> "form", parts |-> f]
FilePart(filename, content) ==
    [t |-> "file", filename |-> filename, content |-> content]

\* the empty mapping (a dict with no keys, a call with no keyword arguments)
Empty == [k \in {} |-> Null]

(***************************************************************************)
(* Python values a handler receives and returns                            *)
(***************************************************************************)
None == [some |-> FALSE]
Some(x) == [some |-> TRUE, v |-> x]

PyDict(d) == [py |-> "dict", d |-> d]
PyList(l) == [py |-> "list", l |-> l]
\* a dict whose keys are integers
PyIntDict(d) == [py |-> "intdict", d |-> d]

\* what a handler does: return a value or raise
Return(v) == [kind |-> "return", value |-> v]
RaiseHTTPException(status_code, detail) ==
    [kind |-> "raise", exc |-> "HTTPException",
     status_code |-> status_code, detail |-> detail]
RaiseValidationError == [kind |-> "raise", exc |-> "ValidationError"]

(***************************************************************************)
(* Model definitions (pydantic BaseModel subclasses)                       *)
(***************************************************************************)
Field(n, ty, req, dflt) ==
    [name |-> n, type |-> ty, required |-> req, default |-> dflt]

\* the enumeration with one member more
ModelName_with_bogus == {"alexnet", "resnet", "lenet", "bogus"}

ModelName == {"alexnet", "resnet", "lenet"}

\* the model with the default of `optional` turned to True
MyRequestBody_optional_true ==
    [cls |-> "MyRequestBody",
     fields |-> {Field("name", "str", TRUE, Null),
                 Field("price", "float", TRUE, Null),
                 Field("optional", "bool", FALSE, Bool(TRUE)),
                 Field("truly_optional", "Optional[bool]", FALSE, Null)}]

MyRequestBody ==
    [cls |-> "MyRequestBody",
     fields |-> {Field("name", "str", TRUE, Null),
                 Field("price", "float", TRUE, Null),
                 Field("optional", "bool", FALSE, Bool(FALSE)),
                 Field("truly_optional", "Optional[bool]", FALSE, Null)}]

MyResponseModel ==
    [cls |-> "MyResponseModel",
     fields |-> {Field("name", "str", TRUE, Null)}]

UserIn ==
    [cls |-> "UserIn",
     fields |-> {Field("username", "str", TRUE, Null),
                 Field("password", "str", TRUE, Null),
                 Field("email", "str", TRUE, Null),
                 Field("full_name", "Optional[str]", FALSE, Null)}]

UserOut ==
    [cls |-> "UserOut",
     fields |-> {Field("username", "str", TRUE, Null),
                 Field("email", "str", TRUE, Null),
                 Field("full_name", "Optional[str]", FALSE, Null)}]

Item ==
    [cls |-> "Item",
     fields |-> {Field("name", "str", TRUE, Null),
                 Field("description", "str", TRUE, Null)}]

FieldNames(model) == {f.name : f \in model.fields}

FieldOf(model, n) == CHOOSE f \in model.fields : f.name = n

\* does the JSON value v conform to the declared field type (the bodies of
\* the model hold no value that would be converted to another type)
Conforms(type, v) ==
    CASE type = "str" -> v.t = "str"
      [] type = "float" -> v.t = "num"
      [] type = "bool" -> v.t = "bool"
      [] type = "Optional[str]" -> v.t \in {"str", "null"}
      [] type = "Optional[bool]" -> v.t \in {"bool", "null"}

\* the fields of model that data (a mapping from names to JSON values) gets
\* wrong: a required field that is missing, or a value of the wrong type
FieldErrors(model, data) ==
    {f.name : f \in {g \in model.fields :
                        IF g.name \in DOMAIN data
                        THEN ~Conforms(g.type, data[g.name])
                        ELSE g.required}}

\* model(**data): the instance, with defaults filled in and the set of the
\* fields that were given explicitly, or the validation errors
Construct(model, data) ==
    IF FieldErrors(model, data) # {}
    THEN [ok |-> FALSE, errors |-> FieldErrors(model, data)]
    ELSE [ok |-> TRUE,
          value |-> [py |-> "model",
                     cls |-> model.cls,
                     values |-> [n \in FieldNames(model) |->
                                    IF n \in DOMAIN data THEN data[n]
                                    ELSE FieldOf(model, n).default],
                     fields_set |-> FieldNames(model) \cap DOMAIN data]]

\* instance.n = v
SetAttr(instance, n, v) ==
    [instance EXCEPT !.values[n] = v, !.fields_set = @ \cup {n}]

\* instance.dict(exclude_unset=...)
ModelDict(instance, exclude_unset) ==
    [n \in (IF exclude_unset THEN instance.fields_set
            ELSE DOMAIN instance.values) |-> instance.values[n]]

(***************************************************************************)
(* Route table: the path operations registered on `router`, in the order   *)
(* of registration                                                         *)
(***************************************************************************)
Operation(method, path, endpoint) ==
    [method |-> method, path |-> path, endpoint |-> endpoint,
     response_model |-> None, exclude_unset |-> FALSE,
     include |-> None, exclude |-> None, status_code |-> 200]

One(model) == Some([list |-> FALSE, model |-> model])
ListOf(model) == Some([list |-> TRUE, model |-> model])

route_read_root ==
    Operation("GET", "/", "read_root")

route_read_item ==
    Operation("GET", "/items/{item_id}", "read_item")

route_get_model ==
    Operation("GET", "/model/{model_name}", "get_model")

route_get_query ==
    Operation("GET", "/query_params/", "get_query")

route_post_body ==
    Operation("POST", "/request_body/", "post_body")

route_post_body_multiple ==
    Operation("POST", "/request_body_multiple/", "post_body_multiple")

route_post_body_list ==
    Operation("POST", "/request_body_list/", "post_body_list")

route_post_body_dict_instead_of_model ==
    Operation("POST", "/request_body_dict_instead_of_model/",
              "post_body_dict_instead_of_model")

route_get_query_list ==
    Operation("GET", "/query_list/", "get_query_list")

route_post_body_embed ==
    Operation("POST", "/request_body_embed/", "post_body_embed")

route_get_cookies ==
    Operation("GET", "/cookies/", "get_cookies")

route_get_header ==
    Operation("GET", "/header/", "get_header")

route_get_header_without_conversion ==
    Operation("GET", "/header_without_conversion/",
              "get_header_without_conversion")

route_get_header_list ==
    Operation("GET", "/header_list/", "get_header_list")

route_post_response_model ==
    [Operation("POST", "/response_model/", "post_response_model")
        EXCEPT !.response_model = One(MyResponseModel)]

\* the route with the input model declared as its response model
route_create_user_as_UserIn ==
    [Operation("POST", "/user/", "create_user")
        EXCEPT !.response_model = One(UserIn)]

route_create_user ==
    [Operation("POST", "/user/", "create_user")
        EXCEPT !.response_model = One(UserOut)]

\* the route without response_model_exclude_unset
route_create_user_no_defaults_without_exclude_unset ==
    [Operation("POST", "/user_no_defaults_in_response/",
              "create_user_no_defaults_in_response")
        EXCEPT !.response_model = One(UserOut)]

route_create_user_no_defaults_in_response ==
    [Operation("POST", "/user_no_defaults_in_response/",
              "create_user_no_defaults_in_response")
        EXCEPT !.response_model = One(UserOut),
               !.exclude_unset = TRUE]

\* the route without response_model_exclude
route_create_user_shortcut_without_exclude ==
    [Operation("POST", "/user_shortcut/", "create_user_shortcut")
        EXCEPT !.response_model = One(UserIn)]

route_create_user_shortcut ==
    [Operation("POST", "/user_shortcut/", "create_user_shortcut")
        EXCEPT !.response_model = One(UserIn),
               !.exclude = Some({"password"})]

route_create_user_another_shortcut ==
    [Operation("POST", "/user_another_shortcut/",
              "create_user_another_shortcut")
        EXCEPT !.response_model = One(UserIn),
               !.include = Some({"username", "full_name", "email"})]

route_get_item_list ==
    [Operation("GET", "/items_list/", "get_item_list")
        EXCEPT !.response_model = ListOf(Item)]

route_create_a_thing ==
    [Operation("POST", "/create_a_thing/", "create_a_thing")
        EXCEPT !.status_code = 201]

route_login ==
    Operation("POST", "/login_form/", "login")

route_create_file ==
    Operation("POST", "/files/", "create_file")

route_create_big_file ==
    Operation("POST", "/files_that_are_big/", "create_big_file")

route_create_files ==
    Operation("POST", "/files_multiple/", "create_files")

route_create_big_files ==
    Operation("POST", "files_multiple_big/", "create_big_files")

route_get_item_exception ==
    Operation("GET", "/items_exception/{item_id}", "get_item_exception")

Routes ==
    << route_read_root,
       route_read_item,
       route_get_model,
       route_get_query,
       route_post_body,
       route_post_body_multiple,
       route_post_body_list,
       route_post_body_dict_instead_of_model,
       route_get_query_list,
       route_post_body_embed,
       route_get_cookies,
       route_get_header,
       route_get_header_without_conversion,
       route_get_header_list,
       route_post_response_model,
       route_create_user,
       route_create_user_no_defaults_in_response,
       route_create_user_shortcut,
       route_create_user_another_shortcut,
       route_get_item_list,
       route_create_a_thing,
       route_login,
       route_create_file,
       route_create_big_file,
       route_create_files,
       route_create_big_files,
       route_get_item_exception >>

(***************************************************************************)
(* Routing: which path operation serves a request                          *)
(***************************************************************************)
IsPlaceholder(seg) ==
    /\ Len(seg) >= 3
    /\ Char(seg, 1) = "{"
    /\ Char(seg, Len(seg)) = "}"

PlaceholderName(seg) == SubSeq(seg, 2, Len(seg) - 1)

\* a path matches a pattern when they have the same segments, a placeholder
\* standing for any non-empty segment
MatchPath(pattern, path) ==
    LET ps == Split(pattern)
        xs == Split(path)
    IN /\ Len(ps) = Len(xs)
       /\ \A i \in 1..Len(ps) :
             IF IsPlaceholder(ps[i]) THEN xs[i] # "" ELSE ps[i] = xs[i]

\* the text each placeholder of the pattern stands for in a matching path
PathParams(pattern, path) ==
    LET ps == Split(pattern)
        xs == Split(path)
        at(name) == CHOOSE j \in 1..Len(ps) :
                       IsPlaceholder(ps[j]) /\ PlaceholderName(ps[j]) = name
    IN [name \in {PlaceholderName(ps[j]) :
                     j \in {k \in 1..Len(ps) : IsPlaceholder(ps[k])}}
           |-> xs[at(name)]]

RECURSIVE RStripSlash(_)
RStripSlash(path) ==
    IF Len(path) >= 1 /\ Char(path, Len(path)) = "/"
    THEN RStripSlash(SubSeq(path, 1, Len(path) - 1))
    ELSE path

\* the path with its trailing slash toggled
ToggleSlash(path) ==
    IF Len(path) >= 1 /\ Char(path, Len(path)) = "/"
    THEN RStripSlash(path)
    ELSE path \o "/"

Min(S) == CHOOSE x \in S : \A y \in S : x <= y

\* the first route that matches path and method serves the request; a path
\* that only routes of another method match is refused; a path that matches
\* once its trailing slash is toggled is redirected; anything else is not
\* found
Resolve(method, path) ==
    LET partial == {i \in 1..Len(Routes) : MatchPath(Routes[i].path, path)}
        full == {i \in partial : Routes[i].method = method}
        toggled == ToggleSlash(path)
    IN IF full # {}
       THEN [kind |-> "endpoint", route |-> Routes[Min(full)],
             path_params |-> PathParams(Routes[Min(full)].path, path)]
       ELSE IF partial # {} THEN [kind |-> "method_not_allowed"]
       ELSE IF /\ toggled # ""
               /\ \E i \in 1..Len(Routes) : MatchPath(Routes[i].path, toggled)
            THEN [kind |-> "redirect", location |-> toggled]
       ELSE [kind |-> "not_found"]

(***************************************************************************)
(* Responses                                                               *)
(***************************************************************************)
Response(status_code, body) ==
    [status_code |-> status_code, body |-> body, location |-> ""]

NotFoundResponse == Response(404, JObj("detail" :> Str("Not Found")))

MethodNotAllowedResponse ==
    Response(405, JObj("detail" :> Str("Method Not Allowed")))

RedirectResponse(location) ==
    [status_code |-> 307, body |-> NoBody, location |-> location]

\* an exception that no handler is registered for
ServerErrorResponse == Response(500, Str("Internal Server Error"))

\* request validation failed: every offending parameter is listed
ValidationErrorResponse(locs) ==
    Response(422, JObj("detail" :> [t |-> "errors", locs |-> locs]))

\* HTTPException(status_code, detail) raised by a handler
HTTPExceptionResponse(status_code, detail) ==
    Response(status_code, JObj("detail" :> Str(detail)))

(***************************************************************************)
(* Response shaping                                                        *)
(***************************************************************************)
\* the field names left by response_model_include / response_model_exclude
FilterFields(names, include, exclude) ==
    (IF include.some THEN names \cap include.v ELSE names)
        \ (IF exclude.some THEN exclude.v ELSE {})

\* one returned value (a model instance or a dict) shaped by the response
\* model: turned into a dict, validated against the response model, and
\* encoded with the route's include / exclude / exclude_unset settings
ShapeOne(route, model, content) ==
    LET data == IF content.py = "model"
                THEN ModelDict(content, route.exclude_unset)
                ELSE content.d
        checked == Construct(model, data)
        names == FilterFields(IF route.exclude_unset
                              THEN checked.value.fields_set
                              ELSE FieldNames(model),
                              route.include, route.exclude)
    IN IF checked.ok
       THEN [ok |-> TRUE,
             json |-> JObj([n \in names |-> checked.value.values[n]])]
       ELSE [ok |-> FALSE]

\* the JSON encoding of a returned value when no response model is declared
Encode(content) ==
    CASE content.py = "model" -> JObj(ModelDict(content, FALSE))
      [] content.py = "dict" -> JObj(content.d)
      [] content.py = "intdict" ->
            JObj([k \in {StrOfInt(n) : n \in DOMAIN content.d} |->
                     content.d[CHOOSE n \in DOMAIN content.d :
                                  StrOfInt(n) = k]])
      [] content.py = "list" ->
            JList([i \in 1..Len(content.l) |-> JObj(content.l[i])])

\* the body sent for the value a handler returned
Serialize(route, content) ==
    IF ~route.response_model.some
    THEN [ok |-> TRUE, json |-> Encode(content)]
    ELSE LET rm == route.response_model.v
         IN IF rm.list
            THEN LET each == [i \in 1..Len(content.l) |->
                                 ShapeOne(route, rm.model,
                                          PyDict(content.l[i]))]
                 IN IF \A i \in 1..Len(each) : each[i].ok
                    THEN [ok |-> TRUE,
                          json |-> JList([i \in 1..Len(each) |->
                                             each[i].json])]
                    ELSE [ok |-> FALSE]
            ELSE ShapeOne(route, rm.model, content)

\* the response to a request whose handler ended with `outcome`
Finish(route, outcome) ==
    IF outcome.kind = "raise"
    THEN IF outcome.exc = "HTTPException"
         THEN HTTPExceptionResponse(outcome.status_code, outcome.detail)
         ELSE ServerErrorResponse
    ELSE LET out == Serialize(route, outcome.value)
         IN IF out.ok THEN Response(route.status_code, out.json)
            ELSE ServerErrorResponse

(***************************************************************************)
(* Handlers                                                                *)
(***************************************************************************)
\* the handler with the keys of the other handlers
read_root_lowercase == Return(PyDict("hello" :> Str("world")))

read_root == Return(PyDict("Hello" :> Str("World")))

read_item(item_id) == Return(PyDict("item_id" :> item_id))

\* the handler with the member name misspelt in the second comparison
get_model_lenet_misspelt(model_name) ==
    IF model_name = "alexnet"
    THEN Return(PyDict(("model_name" :> Str(model_name))
                       @@ ("message" :> Str("Deep Learning FTW!"))))
    ELSE IF model_name = "LeNet"
    THEN Return(PyDict(("model_name" :> Str(model_name))
                       @@ ("message" :> Str("LeCNN all the images"))))
    ELSE Return(PyDict(("model_name" :> Str(model_name))
                       @@ ("message" :> Str("Have some residuals"))))

get_model(model_name) ==
    IF model_name = "alexnet"
    THEN Return(PyDict(("model_name" :> Str(model_name))
                       @@ ("message" :> Str("Deep Learning FTW!"))))
    ELSE IF model_name = "lenet"
    THEN Return(PyDict(("model_name" :> Str(model_name))
                       @@ ("message" :> Str("LeCNN all the images"))))
    ELSE Return(PyDict(("model_name" :> Str(model_name))
                       @@ ("message" :> Str("Have some residuals"))))

post_body(body) == Return(body)

post_response_model(body) ==
    LET new == Construct(MyResponseModel, Empty)
    IN IF ~new.ok THEN RaiseValidationError
       ELSE Return(SetAttr(new.value, "name", body.values["name"]))

create_user(user) == Return(user)

create_user_no_defaults_in_response(user) == Return(user)

create_user_shortcut(user) == Return(user)

create_user_another_shortcut(user) == Return(user)

\* the outcome, and the table `items` as the handler leaves it
get_item_list ==
    [outcome |-> Return(PyList(items)), items |-> items]

\* the handler reading the table with dict.get: a missing key is no error
get_item_exception_get(item_id) ==
    [outcome |-> IF item_id \notin DOMAIN items_exception
                 THEN Return(PyDict("item" :> Null))
                 ELSE Return(PyDict("item" :> Str(items_exception[item_id]))),
     items_exception |-> items_exception]

\* the handler reading the table with dict.pop: the key found is removed
get_item_exception_pop(item_id) ==
    [outcome |-> IF item_id \notin DOMAIN items_exception
                 THEN RaiseHTTPException(404, "Item not found")
                 ELSE Return(PyDict("item" :> Str(items_exception[item_id]))),
     items_exception |-> [k \in DOMAIN items_exception \ {item_id} |->
                            items_exception[k]]]

\* the outcome, and the table `items_exception` as the handler leaves it
get_item_exception(item_id) ==
    [outcome |-> IF item_id \notin DOMAIN items_exception
                 THEN RaiseHTTPException(404, "Item not found")
                 ELSE Return(PyDict("item" :> Str(items_exception[item_id]))),
     items_exception |-> items_exception]

get_query(my_query_param, my_boolean_query_param, my_optional_param) ==
    Return(PyDict("hello" :> Str("world")))

post_body_multiple(body_1, body_2) == Return(body_1)

post_body_list(bodys) == Return(PyDict("hello" :> Str("world")))

post_body_dict_instead_of_model(weights) == Return(weights)

get_query_list(query_list, query_list_with_defaults) ==
    Return(PyDict("query_list" :> query_list))

post_body_embed(body) == Return(PyDict("hello" :> Str("world")))

get_cookies(cookie) == Return(PyDict("cookie" :> cookie))

get_header(header) == Return(PyDict("header" :> header))

get_header_without_conversion(header) == Return(PyDict("header" :> header))

get_header_list(x_token) == Return(PyDict("X-Token values" :> x_token))

create_a_thing(name) == Return(PyDict("name" :> name))

login(username, password) == Return(PyDict("username" :> username))

\* file is the content of the upload (bytes, held as a Str)
create_file(file) == Return(PyDict("file_size" :> Num(Len(file.s))))

\* file is the upload itself
create_big_file(file) == Return(PyDict("filename" :> Str(file.filename)))

create_files(files) ==
    Return(PyDict("file_sizes" :>
                     JList([i \in 1..Len(files) |-> Num(Len(files[i].s))])))

create_big_files(files) ==
    Return(PyDict("filenames" :>
                     JList([i \in 1..Len(files) |-> Str(files[i].filename)])))

(***************************************************************************)
(* Requests the clients send                                               *)
(***************************************************************************)
SegAlphabet == {"7", "-", "x"}

RECURSIVE Words(_)
\* the words over SegAlphabet of at most n characters
Words(n) ==
    IF n = 0 THEN {""}
    ELSE LET shorter == Words(n - 1)
         IN shorter \cup {w \o c : w \in {v \in shorter : Len(v) = n - 1},
                                   c \in SegAlphabet}

GeneratedSegments == Words(MaxSegLen) \ {""}

NamedSegments ==
    {"42", "abc", "foo", "bar", "alexnet", "resnet", "lenet", "bogus"}

GetPaths ==
    {"/", "/items_list/", "/items_list", "/items/", "/items/7/7", "/nope",
     "/user/", "/model/lenet/"}
        \cup {"/items/" \o seg : seg \in GeneratedSegments \cup NamedSegments}
        \cup {"/model/" \o seg : seg \in NamedSegments}
        \cup {"/items_exception/" \o seg : seg \in NamedSegments}

Absent == [t |-> "absent"]

\* the JSON object that has the fields of `choice` that are not Absent
Object(choice) ==
    JObj([k \in {f \in DOMAIN choice : choice[f] # Absent} |-> choice[k]])

UserBodies ==
    {Object(c) : c \in [username : {Str("alice"), Str("bob")},
                        password : {Str("s3cret"), Absent},
                        email : {Str("alice@example.org")},
                        full_name : {Absent, Null, Str("Alice A")}]}

RequestBodies ==
    {Object(c) : c \in [name : {Str("Foo"), Str("Bar")},
                        price : {Num(42), Str("abc"), Absent},
                        optional : {Absent, Bool(FALSE), Bool(TRUE)}]}

UserPaths ==
    {"/user/", "/user_no_defaults_in_response/", "/user_shortcut/",
     "/user_another_shortcut/"}

RequestBodyPaths == {"/request_body/", "/response_model/"}

\* query, headers and cookies give each name its list of values; header
\* names are in lower case, as they are matched
Request(method, path, body) ==
    [method |-> method, path |-> path, body |-> body,
     query |-> Empty, headers |-> Empty, cookies |-> Empty]

\* requests that give query parameters, headers or cookies
ParameterRequests ==
    {[Request("GET", "/query_params/", NoBody) EXCEPT !.query = q] :
        q \in {Empty,
               "my_query_param" :> <<"7">>,
               "my_query_param" :> <<"x">>,
               ("my_boolean_query_param" :> <<"on">>)
                  @@ ("my_optional_param" :> <<"-7">>),
               "my_boolean_query_param" :> <<"maybe">>}}
        \cup {[Request("GET", "/query_list/", NoBody) EXCEPT !.query = q] :
                 q \in {Empty, "query_list" :> <<"foo", "bar">>}}
        \cup {[Request("POST", "/create_a_thing/", NoBody)
                  EXCEPT !.query = q] :
                 q \in {Empty, "name" :> <<"thing">>}}
        \cup {[Request("GET", path, NoBody) EXCEPT !.headers = h] :
                 path \in {"/header/", "/header_without_conversion/"},
                 h \in {Empty, "header" :> <<"gzip">>}}
        \cup {[Request("GET", "/header_list/", NoBody) EXCEPT !.headers = h] :
                 h \in {Empty, "x-token" :> <<"foo", "bar">>,
                        "x_token" :> <<"foo">>}}
        \cup {[Request("GET", "/cookies/", NoBody) EXCEPT !.cookies = c] :
                 c \in {Empty, "cookie" :> <<"oatmeal">>}}

TextFile == FilePart("notes.txt", "abc")
DataFile == FilePart("data.bin", "xy")

\* requests that carry JSON bodies, forms or uploaded files
BodyRequests ==
    LET FooBody == JObj(("name" :> Str("Foo")) @@ ("price" :> Num(42)))
        BarBody == JObj(("name" :> Str("Bar")) @@ ("price" :> Num(7))
                        @@ ("optional" :> Bool(TRUE)))
        \* no price
        BadBody == JObj("name" :> Str("Foo"))
    IN {Request("POST", "/request_body_multiple/", body) :
           body \in {JObj(("body_1" :> FooBody) @@ ("body_2" :> BarBody)),
                     JObj(("body_1" :> BarBody) @@ ("body_2" :> BadBody)),
                     JObj("body_1" :> FooBody)}}
        \cup {Request("POST", "/request_body_list/", body) :
                 body \in {JList(<<FooBody, BarBody>>), JList(<<BadBody>>),
                           NoBody}}
        \cup {Request("POST", "/request_body_dict_instead_of_model/", body) :
                 body \in {JObj(("7" :> Num(42)) @@ ("-7" :> Num(7))),
                           JObj("x" :> Num(42)),
                           JObj("7" :> Str("abc"))}}
        \cup {Request("POST", "/request_body_embed/", body) :
                 body \in {JObj("body" :> FooBody), FooBody}}
        \cup {Request("POST", "/login_form/", body) :
                 body \in {JForm(("username" :> <<Str("alice")>>)
                                 @@ ("password" :> <<Str("s3cret")>>)),
                           JForm("username" :> <<Str("alice")>>),
                           NoBody}}
        \cup {Request("POST", path, body) :
                 path \in {"/files/", "/files_that_are_big/"},
                 body \in {JForm("file" :> <<TextFile>>), NoBody}}
        \cup {Request("POST", path, body) :
                 path \in {"/files_multiple/", "/files_multiple_big/"},
                 body \in {JForm("files" :> <<TextFile, DataFile>>), NoBody}}

Requests ==
    {Request("GET", path, NoBody) : path \in GetPaths}
        \cup ParameterRequests \cup BodyRequests
        \cup {Request("POST", path, NoBody) :
                 path \in UserPaths \cup RequestBodyPaths \cup {"/", "/nope"}}
        \cup {Request("POST", path, body) :
                 path \in UserPaths, body \in UserBodies}
        \cup {Request("POST", path, body) :
                 path \in RequestBodyPaths, body \in RequestBodies}

(***************************************************************************)
(* State                                                                   *)
(***************************************************************************)
NoRequest == Request("", "", NoBody)
NoResponse == Response(0, NoBody)
NoCall == [endpoint |-> "", args |-> Empty]
Call(endpoint, args) == [endpoint |-> endpoint, args |-> args]

\* the lookup tables of the module, as the module body builds them
ItemsTable ==
    << ("name" :> Str("Foo")) @@ ("description" :> Str("There comes my hero")),
       ("name" :> Str("Red")) @@ ("description" :> Str("It's my aeroplane")) >>

ItemsExceptionTable == ("foo" :> "The Foo Wrestlers")

VehiclesTable ==
    ("vehicles1" :>
        (("description" :> Str("All my friends drive a low rider"))
         @@ ("type" :> Str("car"))))
    @@ ("vehicles2" :>
        (("description" :> Str("Music is my aeroplane, it's my aeroplane"))
         @@ ("type" :> Str("plane"))
         @@ ("size" :> Num(5))))

\* request, response and called describe the latest exchange; earlier is an
\* exchange that took place before it
Init ==
    /\ items = ItemsTable
    /\ items_exception = ItemsExceptionTable
    /\ vehicles = VehiclesTable
    /\ request = NoRequest
    /\ response = NoResponse
    /\ called = NoCall
    /\ earlier = [request |-> NoRequest, response |-> NoResponse]

(***************************************************************************)
(* Dispatch                                                                *)
(***************************************************************************)
\* every request of the model together with the router's decision for it
Routing ==
    {[request |-> req, found |-> Resolve(req.method, req.path)] :
        req \in Requests}

\* the routed requests that the path operation of handler `endpoint` serves
ServedBy(endpoint) ==
    {d \in Routing : d.found.kind = "endpoint"
                     /\ d.found.route.endpoint = endpoint}

\* the routed requests that no path operation serves, by the kind of refusal
Refused(kind) == {d \in Routing : d.found.kind = kind}

\* the request is answered: `call` records the handler invocation, if any;
\* the exchange this one replaces may be kept in `earlier`, to compare a
\* later repetition of it with
Answer(req, call, resp) ==
    /\ request' = req
    /\ called' = call
    /\ response' = resp
    /\ earlier' \in IF request.method = "GET"
                    THEN {earlier, [request |-> request, response |-> response]}
                    ELSE {earlier}

\* the single body parameter `param` of type `model`, taken from the body
BodyArg(req, param, model) ==
    IF req.body.t # "obj"
    THEN [ok |-> FALSE, locs |-> {<<"body", param>>}]
    ELSE LET made == Construct(model, req.body.o)
         IN IF made.ok
            THEN [ok |-> TRUE, value |-> made.value]
            ELSE [ok |-> FALSE,
                  locs |-> {<<"body", param, f>> : f \in made.errors}]

\* the body parameter `param` of type `model`, taken from the key `param` of
\* the body (several body parameters, or one that is embedded)
EmbeddedArg(req, param, model) ==
    IF req.body.t = "obj" /\ param \in DOMAIN req.body.o
    THEN BodyArg([body |-> req.body.o[param]], param, model)
    ELSE [ok |-> FALSE, locs |-> {<<"body", param>>}]

\* the values that the query string or the cookies `given` hold for a
\* parameter
ParamValues(given, name) ==
    IF name \in DOMAIN given THEN given[name] ELSE <<>>

\* the values a request gives for a header parameter; the header is named
\* after the parameter, with hyphens for underscores unless that is disabled
HeaderValues(req, param, convert_underscores) ==
    LET key == IF convert_underscores THEN ReplaceChar(param, "_", "-")
               ELSE param
    IN ParamValues(req.headers, key)

\* the parts a request gives for a form or file parameter
FormParts(req, name) ==
    IF req.body.t = "form" /\ name \in DOMAIN req.body.parts
    THEN req.body.parts[name]
    ELSE <<>>

Missing(loc) == [ok |-> FALSE, locs |-> {loc}]
Valid(value) == [ok |-> TRUE, value |-> value]

\* a parameter of a singular type read from the texts given for it: the
\* default when none is given (an error when there is no default), else the
\* last text converted to the type
ScalarParam(values, type, default, loc) ==
    IF values = <<>>
    THEN IF default.some THEN Valid(default.v) ELSE Missing(loc)
    ELSE LET text == values[Len(values)]
         IN CASE type = "str" -> Valid(Str(text))
              [] type = "int" ->
                    IF ParseInt(text).ok THEN Valid(Num(ParseInt(text).n))
                    ELSE Missing(loc)
              [] type = "bool" ->
                    IF ParseBool(text).ok THEN Valid(Bool(ParseBool(text).b))
                    ELSE Missing(loc)

\* a List[str] parameter read from the texts given for it
ListParam(values, default, loc) ==
    IF values = <<>>
    THEN IF default.some THEN Valid(default.v) ELSE Missing(loc)
    ELSE Valid(JList([i \in 1..Len(values) |-> Str(values[i])]))

\* a required parameter read from the parts of the form: a str field, the
\* bytes of an uploaded file, the upload itself, or the bytes of every file
FormParam(parts, type, loc) ==
    LET last == parts[Len(parts)]
        PartBytes(part) == IF part.t = "file" THEN Str(part.content) ELSE part
    IN IF parts = <<>> THEN Missing(loc)
       ELSE CASE type = "str" ->
                    IF last.t = "str" THEN Valid(last) ELSE Missing(loc)
              [] type = "bytes" -> Valid(PartBytes(last))
              [] type = "UploadFile" ->
                    IF last.t = "file" THEN Valid(last) ELSE Missing(loc)
              [] type = "List[bytes]" ->
                    Valid([i \in 1..Len(parts) |-> PartBytes(parts[i])])

\* the locations of the errors of the extracted parameters
Locs(params) ==
    UNION {IF params[i].ok THEN {} ELSE params[i].locs :
              i \in 1..Len(params)}

(***************************************************************************)
(* One action per path operation: the parameters are extracted and         *)
(* validated, the handler is called if they are valid, and its outcome is  *)
(* turned into the response.  No handler suspends and the work around it   *)
(* touches only the request at hand, so an exchange is a single step.      *)
(***************************************************************************)
Serve_read_root ==
    \E d \in ServedBy("read_root") :
       /\ Answer(d.request, Call("read_root", Empty), Finish(d.found.route, read_root))
       /\ UNCHANGED <<items, items_exception, vehicles>>

Serve_read_item ==
    \E d \in ServedBy("read_item") :
       /\ LET item_id == ParseInt(d.found.path_params["item_id"])
          IN IF item_id.ok
             THEN Answer(d.request,
                         Call("read_item", "item_id" :> Num(item_id.n)),
                         Finish(d.found.route, read_item(Num(item_id.n))))
             ELSE Answer(d.request, NoCall,
                         ValidationErrorResponse({<<"path", "item_id">>}))
       /\ UNCHANGED <<items, items_exception, vehicles>>

Serve_get_model ==
    \E d \in ServedBy("get_model") :
       /\ LET model_name == d.found.path_params["model_name"]
          IN IF model_name \in ModelName
             THEN Answer(d.request,
                         Call("get_model", "model_name" :> Str(model_name)),
                         Finish(d.found.route, get_model(model_name)))
             ELSE Answer(d.request, NoCall,
                         ValidationErrorResponse({<<"path", "model_name">>}))
       /\ UNCHANGED <<items, items_exception, vehicles>>

Serve_post_body ==
    \E d \in ServedBy("post_body") :
       /\ LET body == BodyArg(d.request, "body", MyRequestBody)
          IN IF body.ok
             THEN Answer(d.request, Call("post_body", "body" :> body.value),
                         Finish(d.found.route, post_body(body.value)))
             ELSE Answer(d.request, NoCall, ValidationErrorResponse(body.locs))
       /\ UNCHANGED <<items, items_exception, vehicles>>

Serve_post_response_model ==
    \E d \in ServedBy("post_response_model") :
       /\ LET body == BodyArg(d.request, "body", MyRequestBody)
          IN IF body.ok
             THEN Answer(d.request,
                         Call("post_response_model",
                              "body" :> body.value),
                         Finish(d.found.route,
                                post_response_model(body.value)))
             ELSE Answer(d.request, NoCall, ValidationErrorResponse(body.locs))
       /\ UNCHANGED <<items, items_exception, vehicles>>

Serve_create_user ==
    \E d \in ServedBy("create_user") :
       /\ LET user == BodyArg(d.request, "user", UserIn)
          IN IF user.ok
             THEN Answer(d.request, Call("create_user", "user" :> user.value),
                         Finish(d.found.route, create_user(user.value)))
             ELSE Answer(d.request, NoCall, ValidationErrorResponse(user.locs))
       /\ UNCHANGED <<items, items_exception, vehicles>>

Serve_create_user_no_defaults_in_response ==
    \E d \in ServedBy("create_user_no_defaults_in_response") :
       /\ LET user == BodyArg(d.request, "user", UserIn)
          IN IF user.ok
             THEN Answer(d.request,
                         Call("create_user_no_defaults_in_response",
                              "user" :> user.value),
                         Finish(d.found.route,
                                create_user_no_defaults_in_response(user.value)))
             ELSE Answer(d.request, NoCall, ValidationErrorResponse(user.locs))
       /\ UNCHANGED <<items, items_exception, vehicles>>

Serve_create_user_shortcut ==
    \E d \in ServedBy("create_user_shortcut") :
       /\ LET user == BodyArg(d.request, "user", UserIn)
          IN IF user.ok
             THEN Answer(d.request,
                         Call("create_user_shortcut",
                              "user" :> user.value),
                         Finish(d.found.route,
                                create_user_shortcut(user.value)))
             ELSE Answer(d.request, NoCall, ValidationErrorResponse(user.locs))
       /\ UNCHANGED <<items, items_exception, vehicles>>

Serve_create_user_another_shortcut ==
    \E d \in ServedBy("create_user_another_shortcut") :
       /\ LET user == BodyArg(d.request, "user", UserIn)
          IN IF user.ok
             THEN Answer(d.request,
                         Call("create_user_another_shortcut",
                              "user" :> user.value),
                         Finish(d.found.route,
                                create_user_another_shortcut(user.value)))
             ELSE Answer(d.request, NoCall, ValidationErrorResponse(user.locs))
       /\ UNCHANGED <<items, items_exception, vehicles>>

Serve_get_item_list ==
    \E d \in ServedBy("get_item_list") :
       /\ Answer(d.request, Call("get_item_list", Empty),
                 Finish(d.found.route, get_item_list.outcome))
       /\ items' = get_item_list.items
       /\ UNCHANGED <<items_exception, vehicles>>

Serve_get_item_exception ==
    \E d \in ServedBy("get_item_exception") :
       /\ LET item_id == d.found.path_params["item_id"]
          IN /\ Answer(d.request,
                       Call("get_item_exception", "item_id" :> Str(item_id)),
                       Finish(d.found.route,
                              get_item_exception(item_id).outcome))
             /\ items_exception' = get_item_exception(item_id).items_exception
       /\ UNCHANGED <<items, vehicles>>

\* the body parameter `bodys`: a JSON list, every element a MyRequestBody
BodyListArg(req, param, model) ==
    IF req.body.t # "list" THEN Missing(<<"body", param>>)
    ELSE LET each == [i \in 1..Len(req.body.l) |->
                         BodyArg([body |-> req.body.l[i]], StrOfInt(i - 1),
                                 model)]
         IN IF Locs(each) = {}
            THEN Valid([i \in 1..Len(each) |-> each[i].value])
            ELSE [ok |-> FALSE,
                  locs |-> {<<"body", param>> \o SubSeq(loc, 2, Len(loc)) :
                               loc \in Locs(each)}]

\* the body parameter `weights`: a JSON object, every key the text of an
\* integer and every value a number
BodyIntDictArg(req, param) ==
    IF req.body.t # "obj" THEN Missing(<<"body", param>>)
    ELSE LET wrong == {k \in DOMAIN req.body.o :
                          ~ParseInt(k).ok \/ req.body.o[k].t # "num"}
         IN IF wrong # {}
            THEN [ok |-> FALSE, locs |-> {<<"body", param, k>> : k \in wrong}]
            ELSE Valid(PyIntDict(
                    [n \in {ParseInt(k).n : k \in DOMAIN req.body.o} |->
                        req.body.o[CHOOSE k \in DOMAIN req.body.o :
                                      ParseInt(k).n = n]]))

Serve_get_query ==
    \E d \in ServedBy("get_query") :
       /\ LET my_query_param ==
                 ScalarParam(ParamValues(d.request.query, "my_query_param"), "int",
                             Some(Num(0)), <<"query", "my_query_param">>)
              my_boolean_query_param ==
                 ScalarParam(ParamValues(d.request.query, "my_boolean_query_param"),
                             "bool", Some(Bool(FALSE)),
                             <<"query", "my_boolean_query_param">>)
              my_optional_param ==
                 ScalarParam(ParamValues(d.request.query, "my_optional_param"), "int",
                             Some(Null), <<"query", "my_optional_param">>)
              bad == Locs(<<my_query_param, my_boolean_query_param, my_optional_param>>)
          IN IF bad = {}
             THEN Answer(d.request,
                         Call("get_query",
                              ("my_query_param" :> my_query_param.value)
                              @@ ("my_boolean_query_param" :> my_boolean_query_param.value)
                              @@ ("my_optional_param" :> my_optional_param.value)),
                         Finish(d.found.route,
                                get_query(my_query_param.value,
                                my_boolean_query_param.value,
                                my_optional_param.value)))
             ELSE Answer(d.request, NoCall, ValidationErrorResponse(bad))
       /\ UNCHANGED <<items, items_exception, vehicles>>

Serve_post_body_multiple ==
    \E d \in ServedBy("post_body_multiple") :
       /\ LET body_1 ==
                 EmbeddedArg(d.request, "body_1", MyRequestBody)
              body_2 ==
                 EmbeddedArg(d.request, "body_2", MyRequestBody)
              bad == Locs(<<body_1, body_2>>)
          IN IF bad = {}
             THEN Answer(d.request,
                         Call("post_body_multiple",
                              ("body_1" :> body_1.value)
                              @@ ("body_2" :> body_2.value)),
                         Finish(d.found.route,
                                post_body_multiple(body_1.value,
                                body_2.value)))
             ELSE Answer(d.request, NoCall, ValidationErrorResponse(bad))
       /\ UNCHANGED <<items, items_exception, vehicles>>

Serve_get_query_list ==
    \E d \in ServedBy("get_query_list") :
       /\ LET query_list ==
                 ListParam(ParamValues(d.request.query, "query_list"), Some(Null),
                           <<"query", "query_list">>)
              query_list_with_defaults ==
                 ListParam(ParamValues(d.request.query, "query_list_with_defaults"),
                           Some(JList(<<Str("foo"), Str("bar")>>)),
                           <<"query", "query_list_with_defaults">>)
              bad == Locs(<<query_list, query_list_with_defaults>>)
          IN IF bad = {}
             THEN Answer(d.request,
                         Call("get_query_list",
                              ("query_list" :> query_list.value)
                              @@ ("query_list_with_defaults" :> query_list_with_defaults.value)),
                         Finish(d.found.route,
                                get_query_list(query_list.value,
                                query_list_with_defaults.value)))
             ELSE Answer(d.request, NoCall, ValidationErrorResponse(bad))
       /\ UNCHANGED <<items, items_exception, vehicles>>

Serve_post_body_embed ==
    \E d \in ServedBy("post_body_embed") :
       /\ LET body ==
                 EmbeddedArg(d.request, "body", MyRequestBody)
              bad == Locs(<<body>>)
          IN IF bad = {}
             THEN Answer(d.request,
                         Call("post_body_embed",
                              ("body" :> body.value)),
                         Finish(d.found.route,
                                post_body_embed(body.value)))
             ELSE Answer(d.request, NoCall, ValidationErrorResponse(bad))
       /\ UNCHANGED <<items, items_exception, vehicles>>

Serve_get_cookies ==
    \E d \in ServedBy("get_cookies") :
       /\ LET cookie ==
                 ScalarParam(ParamValues(d.request.cookies, "cookie"), "str", Some(Null),
                             <<"cookie", "cookie">>)
              bad == Locs(<<cookie>>)
          IN IF bad = {}
             THEN Answer(d.request,
                         Call("get_cookies",
                              ("cookie" :> cookie.value)),
                         Finish(d.found.route,
                                get_cookies(cookie.value)))
             ELSE Answer(d.request, NoCall, ValidationErrorResponse(bad))
       /\ UNCHANGED <<items, items_exception, vehicles>>

Serve_get_header ==
    \E d \in ServedBy("get_header") :
       /\ LET header ==
                 ScalarParam(HeaderValues(d.request, "header", TRUE), "str",
                             Some(Null), <<"header", "header">>)
              bad == Locs(<<header>>)
          IN IF bad = {}
             THEN Answer(d.request,
                         Call("get_header",
                              ("header" :> header.value)),
                         Finish(d.found.route,
                                get_header(header.value)))
             ELSE Answer(d.request, NoCall, ValidationErrorResponse(bad))
       /\ UNCHANGED <<items, items_exception, vehicles>>

Serve_get_header_without_conversion ==
    \E d \in ServedBy("get_header_without_conversion") :
       /\ LET header ==
                 ScalarParam(HeaderValues(d.request, "header", FALSE), "str",
                             Some(Null), <<"header", "header">>)
              bad == Locs(<<header>>)
          IN IF bad = {}
             THEN Answer(d.request,
                         Call("get_header_without_conversion",
                              ("header" :> header.value)),
                         Finish(d.found.route,
                                get_header_without_conversion(header.value)))
             ELSE Answer(d.request, NoCall, ValidationErrorResponse(bad))
       /\ UNCHANGED <<items, items_exception, vehicles>>

Serve_get_header_list ==
    \E d \in ServedBy("get_header_list") :
       /\ LET x_token ==
                 ListParam(HeaderValues(d.request, "x_token", TRUE), Some(Null),
                           <<"header", "x-token">>)
              bad == Locs(<<x_token>>)
          IN IF bad = {}
             THEN Answer(d.request,
                         Call("get_header_list",
                              ("x_token" :> x_token.value)),
                         Finish(d.found.route,
                                get_header_list(x_token.value)))
             ELSE Answer(d.request, NoCall, ValidationErrorResponse(bad))
       /\ UNCHANGED <<items, items_exception, vehicles>>

Serve_create_a_thing ==
    \E d \in ServedBy("create_a_thing") :
       /\ LET name ==
                 ScalarParam(ParamValues(d.request.query, "name"), "str", None,
                             <<"query", "name">>)
              bad == Locs(<<name>>)
          IN IF bad = {}
             THEN Answer(d.request,
                         Call("create_a_thing",
                              ("name" :> name.value)),
                         Finish(d.found.route,
                                create_a_thing(name.value)))
             ELSE Answer(d.request, NoCall, ValidationErrorResponse(bad))
       /\ UNCHANGED <<items, items_exception, vehicles>>

Serve_login ==
    \E d \in ServedBy("login") :
       /\ LET username ==
                 FormParam(FormParts(d.request, "username"), "str",
                           <<"body", "username">>)
              password ==
                 FormParam(FormParts(d.request, "password"), "str",
                           <<"body", "password">>)
              bad == Locs(<<username, password>>)
          IN IF bad = {}
             THEN Answer(d.request,
                         Call("login",
                              ("username" :> username.value)
                              @@ ("password" :> password.value)),
                         Finish(d.found.route,
                                login(username.value,
                                password.value)))
             ELSE Answer(d.request, NoCall, ValidationErrorResponse(bad))
       /\ UNCHANGED <<items, items_exception, vehicles>>

Serve_create_file ==
    \E d \in ServedBy("create_file") :
       /\ LET file ==
                 FormParam(FormParts(d.request, "file"), "bytes",
                           <<"body", "file">>)
              bad == Locs(<<file>>)
          IN IF bad = {}
             THEN Answer(d.request,
                         Call("create_file",
                              ("file" :> file.value)),
                         Finish(d.found.route,
                                create_file(file.value)))
             ELSE Answer(d.request, NoCall, ValidationErrorResponse(bad))
       /\ UNCHANGED <<items, items_exception, vehicles>>

Serve_create_big_file ==
    \E d \in ServedBy("create_big_file") :
       /\ LET file ==
                 FormParam(FormParts(d.request, "file"), "UploadFile",
                           <<"body", "file">>)
              bad == Locs(<<file>>)
          IN IF bad = {}
             THEN Answer(d.request,
                         Call("create_big_file",
                              ("file" :> file.value)),
                         Finish(d.found.route,
                                create_big_file(file.value)))
             ELSE Answer(d.request, NoCall, ValidationErrorResponse(bad))
       /\ UNCHANGED <<items, items_exception, vehicles>>

Serve_create_files ==
    \E d \in ServedBy("create_files") :
       /\ LET files ==
                 FormParam(FormParts(d.request, "files"), "List[bytes]",
                           <<"body", "files">>)
              bad == Locs(<<files>>)
          IN IF bad = {}
             THEN Answer(d.request,
                         Call("create_files",
                              ("files" :> files.value)),
                         Finish(d.found.route,
                                create_files(files.value)))
             ELSE Answer(d.request, NoCall, ValidationErrorResponse(bad))
       /\ UNCHANGED <<items, items_exception, vehicles>>

Serve_post_body_list ==
    \E d \in ServedBy("post_body_list") :
       /\ LET bodys ==
                 BodyListArg(d.request, "bodys", MyRequestBody)
              bad == Locs(<<bodys>>)
          IN IF bad = {}
             THEN Answer(d.request,
                         Call("post_body_list",
                              ("bodys" :> bodys.value)),
                         Finish(d.found.route,
                                post_body_list(bodys.value)))
             ELSE Answer(d.request, NoCall, ValidationErrorResponse(bad))
       /\ UNCHANGED <<items, items_exception, vehicles>>

Serve_post_body_dict_instead_of_model ==
    \E d \in ServedBy("post_body_dict_instead_of_model") :
       /\ LET weights ==
                 BodyIntDictArg(d.request, "weights")
              bad == Locs(<<weights>>)
          IN IF bad = {}
             THEN Answer(d.request,
                         Call("post_body_dict_instead_of_model",
                              ("weights" :> weights.value)),
                         Finish(d.found.route,
                                post_body_dict_instead_of_model(weights.value)))
             ELSE Answer(d.request, NoCall, ValidationErrorResponse(bad))
       /\ UNCHANGED <<items, items_exception, vehicles>>

\* no route matches the path, with or without its trailing slash
NotFound ==
    \E d \in Refused("not_found") :
       /\ Answer(d.request, NoCall, NotFoundResponse)
       /\ UNCHANGED <<items, items_exception, vehicles>>

\* routes match the path, but none for the method
MethodNotAllowed ==
    \E d \in Refused("method_not_allowed") :
       /\ Answer(d.request, NoCall, MethodNotAllowedResponse)
       /\ UNCHANGED <<items, items_exception, vehicles>>

\* a route matches the path once its trailing slash is toggled
RedirectSlashes ==
    \E d \in Refused("redirect") :
       /\ Answer(d.request, NoCall,
                 RedirectResponse(d.found.location))
       /\ UNCHANGED <<items, items_exception, vehicles>>

Next ==
    \/ Serve_read_root
    \/ Serve_read_item
    \/ Serve_get_model
    \/ Serve_post_body
    \/ Serve_post_response_model
    \/ Serve_create_user
    \/ Serve_create_user_no_defaults_in_response
    \/ Serve_create_user_shortcut
    \/ Serve_create_user_another_shortcut
    \/ Serve_get_item_list
    \/ Serve_get_item_exception
    \/ Serve_get_query
    \/ Serve_post_body_multiple
    \/ Serve_post_body_list
    \/ Serve_post_body_dict_instead_of_model
    \/ Serve_get_query_list
    \/ Serve_post_body_embed
    \/ Serve_get_cookies
    \/ Serve_get_header
    \/ Serve_get_header_without_conversion
    \/ Serve_get_header_list
    \/ Serve_create_a_thing
    \/ Serve_login
    \/ Serve_create_file
    \/ Serve_create_big_file
    \/ Serve_create_files
    \/ NotFound
    \/ MethodNotAllowed
    \/ RedirectSlashes

Spec == Init /\ [][Next]_vars

(***************************************************************************)
(* Properties                                                              *)
(***************************************************************************)
\* a JSON body that is a valid UserIn: username, password and email are
\* strings, full_name is omitted, null or a string
ValidUserInBody(body) ==
    /\ body.t = "obj"
    /\ \A f \in {"username", "password", "email"} :
          f \in DOMAIN body.o /\ body.o[f].t = "str"
    /\ "full_name" \in DOMAIN body.o
          => body.o["full_name"].t \in {"str", "null"}

\* a JSON body that is a valid MyRequestBody: name is a string, price a
\* number, optional is omitted or a boolean, truly_optional is omitted, null
\* or a boolean
ValidRequestBody(body) ==
    /\ body.t = "obj"
    /\ "name" \in DOMAIN body.o /\ body.o["name"].t = "str"
    /\ "price" \in DOMAIN body.o /\ body.o["price"].t = "num"
    /\ "optional" \in DOMAIN body.o => body.o["optional"].t = "bool"
    /\ "truly_optional" \in DOMAIN body.o
          => body.o["truly_optional"].t \in {"bool", "null"}

\* the value of field f that the client submitted, null when it left f out
Submitted(body, f) == IF f \in DOMAIN body.o THEN body.o[f] ELSE Null

\* C1: for every valid UserIn body posted to /user/, the response succeeds
\* and consists of username, email and full_name as submitted; it has no
\* password field, although create_user was called with, and returns, the
\* UserIn value that holds the submitted password.
C1_UserResponseOmitsPassword ==
    (/\ request.method = "POST"
     /\ request.path = "/user/"
     /\ ValidUserInBody(request.body))
    => /\ response.status_code = 200
       /\ response.body.t = "obj"
       /\ DOMAIN response.body.o = {"username", "email", "full_name"}
       /\ \A f \in {"username", "email", "full_name"} :
             response.body.o[f] = Submitted(request.body, f)
       /\ "password" \notin DOMAIN response.body.o
       /\ called.endpoint = "create_user"
       /\ create_user(called.args["user"]).value.values["password"]
             = request.body.o["password"]

\* a valid UserIn with a password was posted to /user/ and answered
C1_Witness ==
    /\ request.method = "POST"
    /\ request.path = "/user/"
    /\ ValidUserInBody(request.body)
    /\ request.body.o["password"] = Str("s3cret")
    /\ "full_name" \in DOMAIN request.body.o
    /\ called.endpoint = "create_user"
    /\ response.status_code = 200

\* C2: for every valid MyRequestBody posted to /response_model/, the request
\* succeeds and the response is exactly {name}, name being the submitted one.
C2_ResponseModelProjectsName ==
    (/\ request.method = "POST"
     /\ request.path = "/response_model/"
     /\ ValidRequestBody(request.body))
    => /\ response.status_code = 200
       /\ response.body = JObj("name" :> request.body.o["name"])

\* C3: GET /items_exception/{item_id} answers {item: items_exception[item_id]}
\* when item_id is a key of the table (foo gives "The Foo Wrestlers"); for
\* any other item_id it answers 404 with detail "Item not found", never a
\* success.
C3_ItemsExceptionLookup ==
    \A seg \in NamedSegments :
       request = Request("GET", "/items_exception/" \o seg, NoBody)
       => /\ called = Call("get_item_exception", "item_id" :> Str(seg))
          /\ IF seg \in DOMAIN items_exception
             THEN response =
                     Response(200, JObj("item" :> Str(items_exception[seg])))
             ELSE response =
                     Response(404, JObj("detail" :> Str("Item not found")))
          /\ seg = "foo"
                => response =
                      Response(200, JObj("item" :> Str("The Foo Wrestlers")))
          /\ seg # "foo" => response.status_code = 404

\* an item_id that is not a key was looked up and refused
C3_Witness ==
    /\ request = Request("GET", "/items_exception/bar", NoBody)
    /\ called.endpoint = "get_item_exception"
    /\ response.status_code = 404

\* C4 as stated: GET /model/{model_name} with a segment that is not a
\* member of ModelName ends in a routing failure (not found), not in a
\* validation failure, and get_model is not invoked.
C4_EnumMismatchIsNotFound ==
    \A seg \in NamedSegments \ {"alexnet", "resnet", "lenet"} :
       request = Request("GET", "/model/" \o seg, NoBody)
       => /\ response = NotFoundResponse
          /\ called.endpoint # "get_model"

\* C4 as amended: GET /model/{model_name} with a segment that is not a
\* member of ModelName ends in a validation failure (422) that names the
\* path parameter model_name, not in a routing failure, and get_model is not
\* invoked.
C4_EnumMismatchIsValidationFailure ==
    \A seg \in NamedSegments \ {"alexnet", "resnet", "lenet"} :
       request = Request("GET", "/model/" \o seg, NoBody)
       => /\ response = ValidationErrorResponse({<<"path", "model_name">>})
          /\ response.status_code = 422
          /\ response # NotFoundResponse
          /\ called = NoCall

\* /model/bogus was requested and refused
C4_Witness ==
    /\ request = Request("GET", "/model/bogus", NoBody)
    /\ response.status_code = 422
    /\ called = NoCall

\* C5: whatever requests were answered before, failures included, the lookup
\* tables are as the module built them, and a GET request that repeats an
\* earlier one gets the response the earlier one got.
C5_TablesUnchangedAndGetRepeatable ==
    /\ items = ItemsTable
    /\ items_exception = ItemsExceptionTable
    /\ vehicles = VehiclesTable
    /\ (request.method = "GET" /\ earlier.request = request)
          => earlier.response = response

\* a lookup is repeated after an earlier one, and succeeds again
C5_Witness ==
    /\ request = Request("GET", "/items_exception/foo", NoBody)
    /\ earlier.request = request
    /\ response.status_code = 200

\* C6: for a valid UserIn posted to /user_no_defaults_in_response/ the
\* response has full_name exactly when the body supplied it, also when it
\* supplied the default null, so the body with an explicit null and the body
\* without full_name serialize differently; the password is in neither.
C6_ExcludeUnsetFollowsProvenance ==
    (/\ request.method = "POST"
     /\ request.path = "/user_no_defaults_in_response/"
     /\ ValidUserInBody(request.body))
    => /\ response.status_code = 200
       /\ response.body.t = "obj"
       /\ "full_name" \in DOMAIN response.body.o
             <=> "full_name" \in DOMAIN request.body.o
       /\ DOMAIN response.body.o =
             DOMAIN request.body.o \ {"password"}
       /\ \A f \in DOMAIN response.body.o :
             response.body.o[f] = request.body.o[f]
       /\ "password" \notin DOMAIN response.body.o

\* full_name was supplied as null and is in the response
C6_Witness ==
    /\ request.method = "POST"
    /\ request.path = "/user_no_defaults_in_response/"
    /\ ValidUserInBody(request.body)
    /\ "full_name" \in DOMAIN request.body.o
    /\ request.body.o["full_name"] = Null
    /\ response.status_code = 200
    /\ "full_name" \in DOMAIN response.body.o

\* C7: GET / is answered with exactly {"Hello": "World"} and status 200,
\* whatever was requested before.
C7_RootSaysHelloWorld ==
    request = Request("GET", "/", NoBody)
    => /\ response = Response(200, JObj("Hello" :> Str("World")))
       /\ called = Call("read_root", Empty)

\* GET / was answered after a request that failed
C7_Witness ==
    /\ request = Request("GET", "/", NoBody)
    /\ earlier.response.status_code = 404
    /\ response.status_code = 200

\* C8: GET /items/{item_id}: when the segment is the decimal text of an
\* integer n the response is {item_id: n} (42 for /items/42); otherwise
\* (/items/abc) the request ends in a validation failure and read_item is not
\* invoked, so read_item is never invoked with anything but an integer.
C8_ItemIdIsParsedOrRefused ==
    LET RECURSIVE NatToText(_)
        NatToText(n) ==
            IF n < 10 THEN DigitChars[n + 1]
            ELSE NatToText(n \div 10) \o DigitChars[(n % 10) + 1]
        IntToText(n) ==
            IF n < 0 THEN "-" \o NatToText(0 - n) ELSE NatToText(n)
        limit == 10 ^ MaxSegLen
        TextOf == [n \in (0 - limit)..limit |-> IntToText(n)]
    IN /\ called.endpoint = "read_item" => called.args["item_id"].t = "num"
       /\ \A seg \in GeneratedSegments \cup NamedSegments :
             request = Request("GET", "/items/" \o seg, NoBody)
             => IF \E n \in DOMAIN TextOf : TextOf[n] = seg
                THEN LET n == CHOOSE m \in DOMAIN TextOf : TextOf[m] = seg
                     IN /\ response = Response(200, JObj("item_id" :> Num(n)))
                        /\ called = Call("read_item", "item_id" :> Num(n))
                ELSE /\ response.status_code = 422
                     /\ called = NoCall
       /\ request = Request("GET", "/items/42", NoBody)
             => response = Response(200, JObj("item_id" :> Num(42)))
       /\ request = Request("GET", "/items/abc", NoBody)
             => response.status_code = 422 /\ called = NoCall

\* /items/-7 was answered with the integer -7
C8_Witness ==
    /\ request = Request("GET", "/items/-7", NoBody)
    /\ response = Response(200, JObj("item_id" :> Num(0 - 7)))
    /\ called.endpoint = "read_item"

\* C9: POST /request_body/ echoes a valid MyRequestBody: the response has the
\* submitted name and price, and a field left out of the body has its
\* declared default (optional is false), so {"name": "Foo", "price": 42.0}
\* comes back with optional false.
C9_RequestBodyEchoedWithDefaults ==
    /\ (/\ request.method = "POST"
        /\ request.path = "/request_body/"
        /\ ValidRequestBody(request.body))
       => /\ response.status_code = 200
          /\ response.body.t = "obj"
          /\ DOMAIN response.body.o =
                {"name", "price", "optional", "truly_optional"}
          /\ response.body.o["name"] = request.body.o["name"]
          /\ response.body.o["price"] = request.body.o["price"]
          /\ response.body.o["optional"] =
                IF "optional" \in DOMAIN request.body.o
                THEN request.body.o["optional"] ELSE Bool(FALSE)
          /\ response.body.o["truly_optional"] =
                Submitted(request.body, "truly_optional")
    /\ request = Request("POST", "/request_body/",
                         JObj(("name" :> Str("Foo")) @@ ("price" :> Num(42))))
       => response.body = JObj(("name" :> Str("Foo")) @@ ("price" :> Num(42))
                               @@ ("optional" :> Bool(FALSE))
                               @@ ("truly_optional" :> Null))

\* {"name": "Foo", "price": 42.0} was posted and echoed
C9_Witness ==
    /\ request = Request("POST", "/request_body/",
                         JObj(("name" :> Str("Foo")) @@ ("price" :> Num(42))))
    /\ called.endpoint = "post_body"
    /\ response.status_code = 200
    /\ response.body.o["optional"] = Bool(FALSE)

\* C10: for every valid UserIn body, /user_shortcut/ answers with the UserIn
\* fields except password, and /user_another_shortcut/ with fields among
\* username, full_name and email only; neither response has the password,
\* although the response model of both is UserIn.
C10_ShortcutsOmitPassword ==
    (/\ request.method = "POST"
     /\ request.path \in {"/user_shortcut/", "/user_another_shortcut/"}
     /\ ValidUserInBody(request.body))
    => /\ response.status_code = 200
       /\ response.body.t = "obj"
       /\ "password" \notin DOMAIN response.body.o
       /\ request.path = "/user_shortcut/"
             => DOMAIN response.body.o = FieldNames(UserIn) \ {"password"}
       /\ request.path = "/user_another_shortcut/"
             => DOMAIN response.body.o
                   \subseteq {"username", "full_name", "email"}
       /\ \A f \in DOMAIN response.body.o :
             response.body.o[f] = Submitted(request.body, f)
       /\ called.args["user"].values["password"] = request.body.o["password"]

\* a valid UserIn with a password was posted to /user_shortcut/ and answered
C10_Witness ==
    /\ request.method = "POST"
    /\ request.path = "/user_shortcut/"
    /\ ValidUserInBody(request.body)
    /\ called.endpoint = "create_user_shortcut"
    /\ response.status_code = 200
    /\ "username" \in DOMAIN response.body.o

\* C12: get_model answers every member m of ModelName, and each with one
\* response only: {model_name: m, message}, the message being "Deep Learning
\* FTW!" for alexnet, "LeCNN all the images" for lenet and "Have some
\* residuals" for resnet; a repeated request gets the same response.
C12_GetModelTotalAndDeterministic ==
    \A m \in {"alexnet", "resnet", "lenet"} :
       request = Request("GET", "/model/" \o m, NoBody)
       => /\ called = Call("get_model", "model_name" :> Str(m))
          /\ response.status_code = 200
          /\ response.body.t = "obj"
          /\ DOMAIN response.body.o = {"model_name", "message"}
          /\ response.body.o["model_name"] = Str(m)
          /\ response.body.o["message"] =
                Str(CASE m = "alexnet" -> "Deep Learning FTW!"
                      [] m = "lenet" -> "LeCNN all the images"
                      [] m = "resnet" -> "Have some residuals")
          /\ earlier.request = request => earlier.response = response

\* /model/lenet was requested again and answered with its message
C12_Witness ==
    /\ request = Request("GET", "/model/lenet", NoBody)
    /\ earlier.request = request
    /\ called.endpoint = "get_model"
    /\ response.body.o["message"] = Str("LeCNN all the images")

\* C11: every registered route is reachable and bound to one handler: the
\* handler a request is dispatched to is that of exactly one route matching
\* the request's method and path, and the well-formed upload addressed to the
\* route registered as "files_multiple_big/" is dispatched to
\* create_big_files, which answers with the names of the uploaded files.
C11_EveryRouteReachable ==
    /\ called # NoCall
          => Cardinality({i \in 1..Len(Routes) :
                            /\ Routes[i].endpoint = called.endpoint
                            /\ Routes[i].method = request.method
                            /\ MatchPath(Routes[i].path, request.path)}) = 1
    /\ request = Request("POST", "/files_multiple_big/",
                         JForm("files" :> <<TextFile, DataFile>>))
          => /\ called = Call("create_big_files",
                              "files" :> <<TextFile, DataFile>>)
             /\ response = Finish(route_create_big_files,
                                  create_big_files(<<TextFile, DataFile>>))

====
